---------------------------- MODULE Spec2Model ----------------------------
(***************************************************************************)
(* A model of sched.c: a simulator of the Non-Preemptive Priority (NPP)    *)
(* and Round Robin (RR) CPU scheduling algorithms.                         *)
(*                                                                         *)
(* A struct List is modelled as a record [items, count]: items is the      *)
(* chain of nodes from head to tail, count is the list's count field       *)
(* (which dequeue decrements even when the list is empty).  A struct       *)
(* ProcessNode is a record of its seven integer fields; the next/prev      *)
(* pointers are the node's position in items.  NULL is a reserved record.  *)
(*                                                                         *)
(* One action models main's prelude (argument handling, import, dispatch); *)
(* each scheduler has an initial step, one step per clock tick and one     *)
(* step per completion or preemption.                                      *)
(***************************************************************************)
EXTENDS Integers, Sequences, FiniteSets, TLC

\* ------------------------------------------------------------------------
\* Bounds of the model
\* ------------------------------------------------------------------------
MaxProcs == 3
MaxArrival == 2

\* burst times, priorities and argv[4] values of the bounded invocations
NppBursts == 1..2
RrBursts == 1..3
Priorities == 1..2
QuantumArgs == 0..2

VARIABLES
    pc,              \* control point of the program
    cAlgorithm,      \* main: cAlgorithm
    iQuantum,        \* main: iQuantum, passed to rr
    ReadyQueue,      \* struct List *ReadyQueue
    JobQueue,        \* struct List *JobQueue (npp, rr)
    ProcessQueue,    \* struct List *ProcessQueue
    currentProcess,  \* struct ProcessNode *currentProcess (npp, rr)
    CLOCK,           \* int CLOCK (npp, rr)
    i,               \* the for-loop index of npp and rr
    imported,        \* history: the records main imported, in file order
    credited,        \* history: pid -> clock ticks spent as the running process
    lastTick,        \* history: pid -> CLOCK of the latest tick it was running in
    slice,           \* history: ticks of the current run-slice so far
    selectedAt,      \* history: pid -> CLOCK when it last became the running process
    entered          \* history: pids in the order arrivalChecker moved them to ReadyQueue

vars == <<pc, cAlgorithm, iQuantum, ReadyQueue, JobQueue, ProcessQueue,
          currentProcess, CLOCK, i, imported, credited, lastTick, slice,
          selectedAt, entered>>

\* ------------------------------------------------------------------------
\* Process nodes and lists
\* ------------------------------------------------------------------------
NULL == [pid |-> -1, arrival |-> 0, burst |-> 0, finish |-> 0,
         waiting |-> 0, leftover |-> 0, priority |-> 0]

init_process(pid, arrivalTime, burstTime, priority) ==
    [pid |-> pid, arrival |-> arrivalTime, burst |-> burstTime,
     finish |-> 0, waiting |-> 0, leftover |-> 0, priority |-> priority]

init_list == [items |-> <<>>, count |-> 0]

\* enqueue putting the node at the head instead of the tail
enqueueAtHead(list, node) ==
    [items |-> <<node>> \o list.items, count |-> list.count + 1]

enqueue(list, node) ==
    [items |-> Append(list.items, node), count |-> list.count + 1]

\* the node dequeue returns: the head, NULL when head == tail == NULL
dequeueNode(queue) ==
    IF Len(queue.items) = 0 THEN NULL ELSE Head(queue.items)

\* the list dequeue leaves behind; count is decremented on both paths
dequeue(queue) ==
    IF Len(queue.items) <= 1
        THEN [items |-> <<>>, count |-> queue.count - 1]
        ELSE [items |-> Tail(queue.items), count |-> queue.count - 1]

\* swapWithNext copies the seven data fields of node k to tmp, those of node
\* k+1 to node k and those of tmp to node k+1
swapWithNext(s, k) ==
    LET fields(n) == [pid |-> n.pid, arrival |-> n.arrival, burst |-> n.burst,
                      priority |-> n.priority, finish |-> n.finish,
                      waiting |-> n.waiting, leftover |-> n.leftover]
        tmp == fields(s[k])
    IN  [s EXCEPT ![k] = fields(s[k + 1]), ![k + 1] = fields(tmp)]


\* insSortInner with the comparison reversed
RECURSIVE insSortInnerReversed(_, _)
insSortInnerReversed(s, k) ==
    IF k # 0 /\ s[k].priority < s[k + 1].priority
        THEN insSortInnerReversed(swapWithNext(s, k), k - 1)
        ELSE s

\* insSortInner moving a node left past nodes of equal priority as well
RECURSIVE insSortInnerNonStrict(_, _)
insSortInnerNonStrict(s, k) ==
    IF k # 0 /\ s[k].priority >= s[k + 1].priority
        THEN insSortInnerNonStrict(swapWithNext(s, k), k - 1)
        ELSE s

\* insSortPriority, the inner while loop: node k is swapped leftwards while it
\* exists (k = 0 is i == NULL) and is out of order with its successor
RECURSIVE insSortInner(_, _)
insSortInner(s, k) ==
    IF k # 0 /\ s[k].priority > s[k + 1].priority
        THEN insSortInner(swapWithNext(s, k), k - 1)
        ELSE s

\* insSortPriority, the do-while loop: one iteration with ptr at position ptr
\* and i at position k, repeated while ptr->next != NULL
RECURSIVE insSortLoop(_, _, _)
insSortLoop(s, ptr, k) ==
    LET p == ptr + 1
    IN  IF s[p].priority >= s[k].priority
            THEN IF p < Len(s) THEN insSortLoop(s, p, k + 1) ELSE s
            ELSE LET t == insSortInner(s, k)
                 IN  IF p < Len(s) THEN insSortLoop(t, p, p) ELSE t

insSortPriority(list) ==
    IF list.count = 1
        THEN list
        ELSE [list EXCEPT !.items = insSortLoop(list.items, 1, 1)]

\* arrivalLoop putting an arrived node back on the job queue as well
RECURSIVE arrivalLoopKeeping(_, _, _, _)
arrivalLoopKeeping(ready, job, clock, n) ==
    IF n > 0
        THEN LET node == dequeueNode(job)
                 rest == dequeue(job)
             IN  IF node.arrival = clock
                     THEN arrivalLoopKeeping(enqueue(ready, node), enqueue(rest, node),
                                             clock, n - 1)
                     ELSE arrivalLoopKeeping(ready, enqueue(rest, node), clock, n - 1)
        ELSE [ready |-> ready, job |-> job]

\* ------------------------------------------------------------------------
\* Scheduling methods
\* ------------------------------------------------------------------------
\* arrivalChecker's for loop with n iterations left
RECURSIVE arrivalLoop(_, _, _, _)
arrivalLoop(ready, job, clock, n) ==
    IF n > 0
        THEN LET node == dequeueNode(job)
                 rest == dequeue(job)
             IN  IF node.arrival = clock
                     THEN arrivalLoop(enqueue(ready, node), rest, clock, n - 1)
                     ELSE arrivalLoop(ready, enqueue(rest, node), clock, n - 1)
        ELSE [ready |-> ready, job |-> job]

\* arrivalChecker with one iteration too few
arrivalCheckerShort(ready, job, clock) ==
    arrivalLoop(ready, job, clock, job.count - 1)

arrivalChecker(ready, job, clock) ==
    arrivalLoop(ready, job, clock, job.count)

\* npp lines 357 and 363: the ready queue is sorted when it has a head
sortIfHead(ready) ==
    IF Len(ready.items) # 0 THEN insSortPriority(ready) ELSE ready

\* the pids arrivalChecker appended to a ready queue
Admitted(before, after) ==
    [k \in 1..(Len(after.items) - Len(before.items)) |->
        after.items[Len(before.items) + k].pid]

\* ------------------------------------------------------------------------
\* main: the invocations considered
\* ------------------------------------------------------------------------
\* the input file: a sequence of <<pid, arrival, burst, priority>>; record k
\* has pid k and the arrival, burst and priority f[k] gives
FileOf(n, f) ==
    [k \in 1..n |-> <<k, f[k][1], f[k][2], f[k][3]>>]

ScenarioA == << <<1, 0, 5, 2>>, <<2, 0, 3, 1>>, <<3, 0, 8, 3>> >>
ScenarioB == << <<1, 0, 5, 0>>, <<2, 0, 3, 0>> >>
ScenarioC == << <<1, 0, 2, 0>>, <<2, 5, 2, 0>> >>

\* argc, argv[3], atoi(argv[4]), atoi(argv[5]) and the contents of the input
\* file
Invocation(argc, alg, a4, a5, file) ==
    [argc |-> argc, alg |-> alg, a4 |-> a4, a5 |-> a5, file |-> file]

\* invocations outside the bounded families: too few arguments, RR without a
\* quantum, a negative quantum, and the three scenarios of the specification
FixedInvocations ==
    { Invocation(3, "NPP", 0, 0, <<>>),
      Invocation(4, "RR", 0, 0, ScenarioB),
      Invocation(5, "RR", -1, 0, ScenarioB),
      Invocation(4, "NPP", 0, 0, ScenarioA),
      Invocation(5, "RR", 4, 0, ScenarioB),
      Invocation(5, "RR", 4, 0, ScenarioC) }

\* importLoop leaving leftover as init_process set it
RECURSIVE importLoopNoLeftover(_, _, _, _)
importLoopNoLeftover(list, file, k, n) ==
    IF k <= n
        THEN importLoopNoLeftover(
                 enqueue(list, init_process(file[k][1], file[k][2], file[k][3], file[k][4])),
                 file, k + 1, n)
        ELSE list

\* main lines 110-124: the records imported, each with leftover = burst
RECURSIVE importLoop(_, _, _, _)
importLoop(list, file, k, n) ==
    IF k <= n
        THEN LET node == init_process(file[k][1], file[k][2], file[k][3], file[k][4])
             IN  importLoop(enqueue(list, [node EXCEPT !.leftover = node.burst]),
                            file, k + 1, n)
        ELSE list

import(file, iLimit) ==
    importLoop(init_list, file, 1, IF iLimit > 0 THEN iLimit ELSE Len(file))

\* main lines 82-92: the quantum and the limit taken from the arguments
argQuantum(v) ==
    IF v.alg = "RR" /\ v.argc \in {5, 6} THEN v.a4 ELSE 0

argLimit(v) ==
    IF v.alg = "NPP" /\ v.argc = 5 THEN v.a4
    ELSE IF v.alg = "RR" /\ v.argc = 6 THEN v.a5
    ELSE 0

\* main lines 73-76 and 84-86: the invocations main rejects
argsRejected(v) ==
    \/ v.argc < 4 \/ v.argc > 6
    \/ v.alg = "RR" /\ v.argc = 4

\* processQueue: the scheduler the algorithm name selects
dispatch(alg) ==
    IF alg = "NPP" THEN "npp" ELSE IF alg = "RR" THEN "rr" ELSE "done"

Init ==
    /\ pc = "main"
    /\ cAlgorithm = ""
    /\ iQuantum = 0
    /\ ReadyQueue = init_list
    /\ JobQueue = init_list
    /\ ProcessQueue = init_list
    /\ currentProcess = NULL
    /\ CLOCK = 0
    /\ i = 0
    /\ imported = <<>>
    /\ credited = <<>>
    /\ lastTick = <<>>
    /\ slice = 0
    /\ selectedAt = <<>>
    /\ entered = <<>>

\* main, lines 65-129, and processQueue, lines 409-415, invoked as v
MainRun(v) ==
    /\ cAlgorithm' = v.alg
    /\ IF argsRejected(v)
          THEN /\ pc' = "exit1"
               /\ UNCHANGED <<iQuantum, ReadyQueue, imported, credited, lastTick,
                               selectedAt>>
          ELSE /\ iQuantum' = argQuantum(v)
               /\ ReadyQueue' = import(v.file, argLimit(v))
               /\ imported' = ReadyQueue'.items
               /\ credited' = [k \in 1..Len(imported') |-> 0]
               /\ lastTick' = [k \in 1..Len(imported') |-> 0]
               /\ selectedAt' = [k \in 1..Len(imported') |-> 0]
               /\ pc' = dispatch(v.alg)
    /\ UNCHANGED <<JobQueue, ProcessQueue, currentProcess, CLOCK, i,
                   slice, entered>>

\* An NPP run of a bounded file; with five arguments the fifth is a limit, at
\* most the number of records in the file
MainNPP ==
    /\ pc = "main"
    /\ \E n \in 0..MaxProcs :
       \E f \in [1..n -> (0..MaxArrival) \X NppBursts \X Priorities] :
       \E argc \in {4, 5, 6} :
       \E a4 \in (IF argc = 5 THEN 0..n ELSE {0}) :
           MainRun(Invocation(argc, "NPP", a4, 0, FileOf(n, f)))

\* An RR run of a bounded file with a quantum argument; with six arguments the
\* sixth is a limit, at most the number of records in the file
MainRR ==
    /\ pc = "main"
    /\ \E n \in 0..MaxProcs :
       \E f \in [1..n -> (0..MaxArrival) \X RrBursts \X {0}] :
       \E q \in QuantumArgs :
       \E argc \in {5, 6} :
       \E a5 \in (IF argc = 6 THEN 0..n ELSE {0}) :
           MainRun(Invocation(argc, "RR", q, a5, FileOf(n, f)))

MainFixed ==
    /\ pc = "main"
    /\ \E v \in FixedInvocations : MainRun(v)

\* history: selectedAt once node has become the running process at clock
Selected(node, clock) ==
    IF node = NULL THEN selectedAt ELSE [selectedAt EXCEPT ![node.pid] = clock]

\* npp lines 350-352 and rr lines 377-379: while ReadyQueue->count > 0 the
\* head of ReadyQueue moves to the tail of JobQueue
RECURSIVE drain(_, _)
drain(ready, job) ==
    IF ready.count > 0
        THEN drain(dequeue(ready), enqueue(job, dequeueNode(ready)))
        ELSE [ready |-> ready, job |-> job]

\* npp lines 353-354: the while test, then the for loop's first test
nppNext(node) ==
    IF node = NULL THEN "done"
    ELSE IF 0 < node.burst THEN "npp_for" ELSE "npp_after"

\* nppFinished with the burst left out of the waiting time
nppFinishedNoBurst(node, clock) ==
    [node EXCEPT !.waiting = clock - node.arrival,
                 !.finish = clock]

\* npp lines 359-360
nppFinished(node, clock) ==
    [node EXCEPT !.waiting = clock - node.arrival - node.burst,
                 !.finish = clock]

\* NppInit with the imported queue sorted by priority before the first pick
NppInitSorted ==
    /\ pc = "npp"
    /\ LET r == sortIfHead(ReadyQueue)
           d == drain(dequeue(r), init_list)
       IN  /\ currentProcess' = dequeueNode(r)
           /\ ReadyQueue' = d.ready
           /\ JobQueue' = d.job
    /\ CLOCK' = 0
    /\ i' = 0
    /\ pc' = nppNext(currentProcess')
    /\ slice' = 0
    /\ selectedAt' = Selected(currentProcess', 0)
    /\ UNCHANGED <<cAlgorithm, iQuantum, ProcessQueue, imported, credited, lastTick, entered>>

\* npp, lines 345-353
NppInit ==
    /\ pc = "npp"
    /\ LET d == drain(dequeue(ReadyQueue), init_list)
       IN  /\ currentProcess' = dequeueNode(ReadyQueue)
           /\ ReadyQueue' = d.ready
           /\ JobQueue' = d.job
    /\ CLOCK' = 0
    /\ i' = 0
    /\ pc' = nppNext(currentProcess')
    /\ slice' = 0
    /\ selectedAt' = Selected(currentProcess', 0)
    /\ UNCHANGED <<cAlgorithm, iQuantum, ProcessQueue, imported, credited, lastTick, entered>>

\* NppTick with the running process replaced by a ready process of strictly
\* smaller priority value
NppTickPreempting ==
    /\ pc = "npp_for"
    /\ CLOCK' = CLOCK + 1
    /\ LET a == arrivalChecker(ReadyQueue, JobQueue, CLOCK')
           r == sortIfHead(a.ready)
           preempt == /\ Len(r.items) # 0
                      /\ Head(r.items).priority < currentProcess.priority
       IN  /\ currentProcess' = IF preempt THEN dequeueNode(r) ELSE currentProcess
           /\ ReadyQueue' = IF preempt THEN enqueue(dequeue(r), currentProcess) ELSE r
           /\ JobQueue' = a.job
           /\ entered' = entered \o Admitted(ReadyQueue, a.ready)
    /\ i' = i + 1
    /\ pc' = IF i' < currentProcess.burst THEN "npp_for" ELSE "npp_after"
    /\ credited' = [credited EXCEPT ![currentProcess.pid] = @ + 1]
    /\ lastTick' = [lastTick EXCEPT ![currentProcess.pid] = CLOCK']
    /\ slice' = slice + 1
    /\ UNCHANGED <<cAlgorithm, iQuantum, ProcessQueue, imported, selectedAt>>

\* npp, lines 354-358: one iteration of the for loop
NppTick ==
    /\ pc = "npp_for"
    /\ CLOCK' = CLOCK + 1
    /\ LET a == arrivalChecker(ReadyQueue, JobQueue, CLOCK')
       IN  /\ ReadyQueue' = sortIfHead(a.ready)
           /\ JobQueue' = a.job
           /\ entered' = entered \o Admitted(ReadyQueue, a.ready)
    /\ i' = i + 1
    /\ pc' = IF i' < currentProcess.burst THEN "npp_for" ELSE "npp_after"
    /\ credited' = [credited EXCEPT ![currentProcess.pid] = @ + 1]
    /\ lastTick' = [lastTick EXCEPT ![currentProcess.pid] = CLOCK']
    /\ slice' = slice + 1
    /\ UNCHANGED <<cAlgorithm, iQuantum, ProcessQueue, currentProcess,
                   imported, selectedAt>>

\* npp, lines 359-364 and the while test of line 353
NppComplete ==
    /\ pc = "npp_after"
    /\ ProcessQueue' = enqueue(ProcessQueue, nppFinished(currentProcess, CLOCK))
    /\ LET a == arrivalChecker(ReadyQueue, JobQueue, CLOCK)
           r == sortIfHead(a.ready)
       IN  /\ currentProcess' = dequeueNode(r)
           /\ ReadyQueue' = dequeue(r)
           /\ JobQueue' = a.job
           /\ entered' = entered \o Admitted(ReadyQueue, a.ready)
    /\ i' = 0
    /\ pc' = nppNext(currentProcess')
    /\ slice' = 0
    /\ selectedAt' = Selected(currentProcess', CLOCK)
    /\ UNCHANGED <<cAlgorithm, iQuantum, CLOCK, imported, credited, lastTick>>

\* rrNext with the for loop never entered
rrNextNoSlice(node, quantum) ==
    IF node = NULL THEN "done" ELSE "rr_after"

\* rr lines 380-381: the while test, then the for loop's first test
rrNext(node, quantum) ==
    IF node = NULL THEN "done"
    ELSE IF 0 < quantum THEN "rr_for" ELSE "rr_after"

\* rr line 384: admission is skipped on the last tick of a slice
rrAdmits(idx, quantum) == idx < quantum - 1

\* rrForTest off by one: a slice of quantum + 1 ticks
rrForTestInclusive(idx, quantum) == idx <= quantum

\* rr line 381: the for loop's test
rrForTest(idx, quantum) == idx < quantum

\* rr lines 393-394
rrFinished(node, clock) ==
    [node EXCEPT !.waiting = clock - node.arrival - node.burst,
                 !.finish = clock]

\* rr, lines 372-381
RrInit ==
    /\ pc = "rr"
    /\ LET d == drain(dequeue(ReadyQueue), init_list)
       IN  /\ currentProcess' = dequeueNode(ReadyQueue)
           /\ ReadyQueue' = d.ready
           /\ JobQueue' = d.job
    /\ CLOCK' = 0
    /\ i' = 0
    /\ pc' = rrNext(currentProcess', iQuantum)
    /\ slice' = 0
    /\ selectedAt' = Selected(currentProcess', 0)
    /\ UNCHANGED <<cAlgorithm, iQuantum, ProcessQueue, imported, credited, lastTick, entered>>

\* rr, lines 381-390: one iteration of the for loop
RrTick ==
    /\ pc = "rr_for"
    /\ CLOCK' = CLOCK + 1
    /\ currentProcess' = [currentProcess EXCEPT !.leftover = @ - 1]
    /\ LET a == IF rrAdmits(i, iQuantum)
                    THEN arrivalChecker(ReadyQueue, JobQueue, CLOCK')
                    ELSE [ready |-> ReadyQueue, job |-> JobQueue]
       IN  /\ ReadyQueue' = a.ready
           /\ JobQueue' = a.job
           /\ entered' = entered \o Admitted(ReadyQueue, a.ready)
    /\ IF currentProcess'.leftover = 0
          THEN /\ i' = i
               /\ pc' = "rr_after"
          ELSE /\ i' = i + 1
               /\ pc' = IF rrForTest(i', iQuantum) THEN "rr_for" ELSE "rr_after"
    /\ credited' = [credited EXCEPT ![currentProcess.pid] = @ + 1]
    /\ lastTick' = [lastTick EXCEPT ![currentProcess.pid] = CLOCK']
    /\ slice' = slice + 1
    /\ UNCHANGED <<cAlgorithm, iQuantum, ProcessQueue, imported, selectedAt>>

\* rr, lines 392-398 and the tests of lines 380-381
RrComplete ==
    /\ pc = "rr_after"
    /\ currentProcess.leftover = 0
    /\ ProcessQueue' = enqueue(ProcessQueue, rrFinished(currentProcess, CLOCK))
    /\ LET a == arrivalChecker(ReadyQueue, JobQueue, CLOCK)
       IN  /\ currentProcess' = dequeueNode(a.ready)
           /\ ReadyQueue' = dequeue(a.ready)
           /\ JobQueue' = a.job
           /\ entered' = entered \o Admitted(ReadyQueue, a.ready)
    /\ i' = 0
    /\ pc' = rrNext(currentProcess', iQuantum)
    /\ slice' = 0
    /\ selectedAt' = Selected(currentProcess', CLOCK)
    /\ UNCHANGED <<cAlgorithm, iQuantum, CLOCK, imported, credited, lastTick>>

\* rrRequeue with the arrivals admitted before the running process is put back
rrRequeueAdmitFirst(ready, job, node, clock) ==
    LET a == arrivalChecker(ready, job, clock)
    IN  [ready |-> enqueue(a.ready, node), job |-> a.job]

\* rr lines 401-402: the ready and job queues after the running process is
\* put back and the arrivals of this tick are admitted
rrRequeue(ready, job, node, clock) ==
    arrivalChecker(enqueue(ready, node), job, clock)

\* rr, lines 400-403 and the tests of lines 380-381
RrPreempt ==
    /\ pc = "rr_after"
    /\ currentProcess.leftover # 0
    /\ LET a == rrRequeue(ReadyQueue, JobQueue, currentProcess, CLOCK)
       IN  /\ currentProcess' = dequeueNode(a.ready)
           /\ ReadyQueue' = dequeue(a.ready)
           /\ JobQueue' = a.job
           /\ entered' = entered \o Admitted(enqueue(ReadyQueue, currentProcess), a.ready)
    /\ i' = 0
    /\ pc' = rrNext(currentProcess', iQuantum)
    /\ slice' = 0
    /\ selectedAt' = Selected(currentProcess', CLOCK)
    /\ UNCHANGED <<cAlgorithm, iQuantum, ProcessQueue, CLOCK, imported, credited, lastTick>>

Next ==
    \/ MainNPP
    \/ MainRR
    \/ MainFixed
    \/ NppInit
    \/ NppTick
    \/ NppComplete
    \/ RrInit
    \/ RrTick
    \/ RrComplete
    \/ RrPreempt

Spec == Init /\ [][Next]_vars

\* ------------------------------------------------------------------------
\* Properties
\* ------------------------------------------------------------------------
\* the configurations the scheduling claims are about: NPP, or RR with a
\* positive quantum
ValidRun ==
    \/ cAlgorithm = "NPP"
    \/ cAlgorithm = "RR" /\ iQuantum >= 1

Output == ProcessQueue.items

\* the report: <<pid, arrival, finish, waiting>> of each output record, in order
Report == [k \in 1..Len(Output) |->
             <<Output[k].pid, Output[k].arrival, Output[k].finish, Output[k].waiting>>]

\* the number of output records with the given pid
Occurrences(pid) ==
    Cardinality({ k \in 1..Len(Output) : Output[k].pid = pid })

\* the queue that was popped when currentProcess was selected
Popped == <<currentProcess>> \o ReadyQueue.items

\* C1: when the scheduler has finished (NPP, or RR with quantum >= 1), the
\* output queue holds every imported process exactly once
C1_OutputIsInput ==
    (pc = "done" /\ ValidRun) =>
        /\ Len(Output) = Len(imported)
        /\ \A k \in 1..Len(imported) : Occurrences(imported[k].pid) = 1

\* C2: every record of the output queue has finish = arrival + burst + waiting,
\* and finish is the clock value of the last tick the process ran in
C2_FinishIdentity ==
    \A k \in 1..Len(Output) :
        /\ Output[k].finish = Output[k].arrival + Output[k].burst + Output[k].waiting
        /\ Output[k].finish = lastTick[Output[k].pid]

\* a run of each algorithm has completed a process that had to wait
C2_Witness ==
    /\ ValidRun
    /\ pc = "done"
    /\ \E k \in 1..Len(Output) : Output[k].waiting > 0 /\ Output[k].arrival > 0

\* C3: in NPP the running process keeps the CPU for burst consecutive ticks:
\* every tick since it was selected was its own, it is completed exactly when
\* burst ticks have elapsed, a tick never changes the running process, and a
\* completed process was selected at clock finish - burst
C3_State ==
    cAlgorithm = "NPP" =>
        /\ currentProcess # NULL =>
              /\ CLOCK = selectedAt[currentProcess.pid] + slice
              /\ credited[currentProcess.pid] = slice
              /\ slice <= currentProcess.burst
              /\ (pc = "npp_after") = (slice = currentProcess.burst)
        /\ \A k \in 1..Len(Output) :
              /\ credited[Output[k].pid] = Output[k].burst
              /\ Output[k].finish - Output[k].burst = selectedAt[Output[k].pid]

C3_Step ==
    pc = "npp_for" => (currentProcess' = currentProcess /\ CLOCK' = CLOCK + 1)

C3_NppNoPreemption == []C3_State /\ [][C3_Step]_vars

\* a process of strictly smaller priority value is ready while another runs
C3_Witness ==
    /\ cAlgorithm = "NPP"
    /\ pc = "npp_for"
    /\ slice >= 1
    /\ Len(ReadyQueue.items) # 0
    /\ Head(ReadyQueue.items).priority < currentProcess.priority

\* C4: in RR with quantum >= 1 no slice is longer than quantum ticks, the
\* leftover of the running process is its burst less the ticks credited to it,
\* and every output record was credited exactly burst ticks and has leftover 0
C4_RrAccounting ==
    (cAlgorithm = "RR" /\ iQuantum >= 1) =>
        /\ slice <= iQuantum
        /\ currentProcess # NULL =>
              currentProcess.leftover =
                  currentProcess.burst - credited[currentProcess.pid]
        /\ \A k \in 1..Len(Output) :
              /\ credited[Output[k].pid] = Output[k].burst
              /\ Output[k].leftover = 0

\* a process that needed more than one slice has completed
C4_Witness ==
    /\ cAlgorithm = "RR"
    /\ iQuantum >= 1
    /\ \E k \in 1..Len(Output) : Output[k].burst > iQuantum

\* the position of pid in the order of entry to the ready queue
EntryPos(pid) == CHOOSE k \in 1..Len(entered) : entered[k] = pid

\* NPP has just selected currentProcess after a completion
NppSelected ==
    /\ cAlgorithm = "NPP"
    /\ pc \in {"npp_for", "npp_after"}
    /\ slice = 0
    /\ Len(Output) > 0

\* C5: the process NPP selects after a completion has the least priority value
\* of the ready queue it was popped from, and of the ready processes with that
\* priority it entered the ready queue first (of those that entered at the
\* same tick, the one earlier in the input)
C5_NppSelection ==
    NppSelected =>
        \A k \in 1..Len(ReadyQueue.items) :
            LET r == ReadyQueue.items[k]
            IN  /\ currentProcess.priority <= r.priority
                /\ currentProcess.priority = r.priority =>
                      /\ EntryPos(currentProcess.pid) < EntryPos(r.pid)
                      /\ currentProcess.arrival <= r.arrival
                      /\ currentProcess.arrival = r.arrival =>
                            currentProcess.pid < r.pid

\* a selection that passed over an equal-priority process that entered later,
\* and one that passed over an earlier process of larger priority value
C5_Witness ==
    /\ NppSelected
    /\ \E k \in 1..Len(ReadyQueue.items) :
          \/ ReadyQueue.items[k].priority = currentProcess.priority
          \/ /\ ReadyQueue.items[k].priority > currentProcess.priority
             /\ EntryPos(ReadyQueue.items[k].pid) < EntryPos(currentProcess.pid)

\* the pending records with arrival = clock, in pool order
Arriving(job, clock) == SelectSeq(job.items, LAMBDA p : p.arrival = clock)

\* C6: when RR preempts the running process at clock value t, the queue the
\* next process is popped from is the old ready queue, then the preempted
\* process, then the pending processes with arrival = t in pool order
C6_Step ==
    (pc = "rr_after" /\ currentProcess.leftover # 0) =>
        <<currentProcess'>> \o ReadyQueue'.items =
            ReadyQueue.items \o <<currentProcess>> \o Arriving(JobQueue, CLOCK)

C6_PreemptedBeforeArrivals == [][C6_Step]_vars

\* a slice has just ended at clock t >= 1 with the preempted process directly
\* followed by a process that arrived at t
C6_Witness ==
    /\ cAlgorithm = "RR"
    /\ iQuantum >= 1
    /\ pc = "rr_for"
    /\ slice = 0
    /\ CLOCK >= 1
    /\ \E k \in 1..(Len(Popped) - 1) :
          /\ Popped[k].leftover < Popped[k].burst
          /\ lastTick[Popped[k].pid] = CLOCK
          /\ Popped[k + 1].arrival = CLOCK
          /\ credited[Popped[k + 1].pid] = 0
          /\ entered[Len(entered)] = Popped[Len(Popped)].pid

\* the records main imports from a file read to its end
ImportOf(file) == import(file, 0).items

\* C7: RR with quantum >= 1 never stops while a process that has yet to
\* arrive is pending; on (1,0,2,0) (2,5,2,0) with quantum 4 process 2 is
\* reported with finish = 7 and waiting = 0
C7_IdleAdvance ==
    /\ (cAlgorithm = "RR" /\ iQuantum >= 1 /\ pc = "done") =>
          \A k \in 1..Len(JobQueue.items) : JobQueue.items[k].arrival <= CLOCK
    /\ (cAlgorithm = "RR" /\ iQuantum = 4 /\ imported = ImportOf(ScenarioC)
            /\ pc = "done") =>
          \E k \in 1..Len(Report) : Report[k] = <<2, 5, 7, 0>>

\* C8: NPP on (1,0,5,2) (2,0,3,1) (3,0,8,3) reports process 1 with finish 5
\* and waiting 0, then process 2 with finish 8 and waiting 5, then process 3
\* with finish 16 and waiting 8
C8_ScenarioA ==
    (cAlgorithm = "NPP" /\ imported = ImportOf(ScenarioA) /\ pc = "done") =>
        Report = << <<1, 0, 5, 0>>, <<2, 0, 8, 5>>, <<3, 0, 16, 8>> >>

\* C9: RR with quantum 4 on (1,0,5,0) (2,0,3,0) preempts process 1 at clock 4
\* with leftover 1 and reports process 2 with finish 7 and waiting 4, then
\* process 1 with finish 8 and waiting 3
C9_ScenarioB ==
    (cAlgorithm = "RR" /\ iQuantum = 4 /\ imported = ImportOf(ScenarioB)) =>
        /\ (pc = "rr_after" /\ CLOCK = 4) =>
              (currentProcess.pid = 1 /\ currentProcess.leftover = 1)
        /\ pc = "done" =>
              Report = << <<2, 0, 7, 4>>, <<1, 0, 8, 3>> >>

\* C10: with algorithm RR and a quantum that is missing or <= 0 the program
\* stops in main with an error: the scheduler is never entered
C10_QuantumValidated ==
    (cAlgorithm = "RR" /\ iQuantum <= 0) => pc \in {"main", "exit1"}

\* C11: no dequeue is ever made on an empty list.  dequeue decrements count on
\* both of its paths, so a list's count is negative exactly when it has been
\* dequeued while empty
C11_NoEmptyPop ==
    /\ ReadyQueue.count >= 0
    /\ JobQueue.count >= 0
    /\ ProcessQueue.count >= 0

\* C12: the output queue is in completion order: from head to tail the finish
\* values strictly increase, and the tail is the latest completion
C12_CompletionOrder ==
    /\ \A k \in 1..(Len(Output) - 1) : Output[k].finish < Output[k + 1].finish
    /\ Len(Output) > 0 => Output[Len(Output)].finish <= CLOCK
    /\ (Len(Output) > 0 /\ slice = 0) => Output[Len(Output)].finish = lastTick[Output[Len(Output)].pid]

\* an output whose order is neither pid order nor arrival order
C12_Witness ==
    \E k \in 1..(Len(Output) - 1) :
        /\ Output[k].pid > Output[k + 1].pid
        /\ Output[k].arrival > Output[k + 1].arrival

\* C13: for a non-empty input the process running at clock 0, and so in the
\* first tick, is the first imported record, under NPP and RR alike; under NPP
\* the first output record is the first imported record with finish = burst
C13_FirstIsInputHead ==
    (ValidRun /\ Len(imported) > 0) =>
        /\ (pc \in {"npp_for", "npp_after", "rr_for", "rr_after"} /\ CLOCK = 0) =>
              currentProcess = imported[1]
        /\ CLOCK >= 1 =>
              /\ credited[imported[1].pid] >= 1
              /\ \A k \in 2..Len(imported) :
                    credited[imported[k].pid] > 0 => lastTick[imported[k].pid] > 1
        /\ (cAlgorithm = "NPP" /\ Len(Output) >= 1) =>
              /\ Output[1].pid = imported[1].pid
              /\ Output[1].finish = imported[1].burst

\* the first imported record has completed under NPP although a later record
\* with arrival 0 has a strictly smaller priority value
C13_Witness ==
    /\ cAlgorithm = "NPP"
    /\ Len(Output) >= 1
    /\ \E k \in 2..Len(imported) :
          /\ imported[k].priority < imported[1].priority
          /\ imported[k].arrival = 0

\* the number of records of a sequence with the given pid
CountIn(s, pid) == Cardinality({ k \in 1..Len(s) : s[k].pid = pid })

\* the number of places a process is in: running, ready, pending, output
Places(pid) ==
    (IF currentProcess.pid = pid THEN 1 ELSE 0)
        + CountIn(ReadyQueue.items, pid)
        + CountIn(JobQueue.items, pid)
        + CountIn(Output, pid)

\* C14: every imported process is in exactly one place (running, ready queue,
\* pending pool or output queue), and the output queue only ever grows at its
\* tail, so a process that has entered it stays in it and nowhere else
C14_State ==
    \A k \in 1..Len(imported) : Places(imported[k].pid) = 1

C14_Step ==
    /\ Len(ProcessQueue'.items) >= Len(Output)
    /\ SubSeq(ProcessQueue'.items, 1, Len(Output)) = Output

C14_OnePlace == []C14_State /\ [][C14_Step]_vars

\* a process is running while others are ready and others have completed
C14_Witness ==
    /\ currentProcess # NULL
    /\ Len(ReadyQueue.items) > 0
    /\ Len(Output) > 0

\* ------------------------------------------------------------------------
\* insSortPriority on its own: every queue of 1..MaxSortLen nodes with
\* priorities among SortPriorities is sorted once
\* ------------------------------------------------------------------------
MaxSortLen == 4
SortPriorities == 1..3

\* node k of a queue to sort: its fields differ from every other node's
SortNode(k, prio) ==
    [pid |-> k, arrival |-> k + 1, burst |-> k + 2, finish |-> 2 * k,
     waiting |-> 3 * k, leftover |-> k + 3, priority |-> prio]

SortInit ==
    /\ pc = "sort"
    /\ \E n \in 1..MaxSortLen :
       \E f \in [1..n -> SortPriorities] :
           ReadyQueue = [items |-> [k \in 1..n |-> SortNode(k, f[k])], count |-> n]
    /\ imported = ReadyQueue.items
    /\ cAlgorithm = "NPP"
    /\ iQuantum = 0
    /\ JobQueue = init_list
    /\ ProcessQueue = init_list
    /\ currentProcess = NULL
    /\ CLOCK = 0
    /\ i = 0
    /\ credited = <<>>
    /\ lastTick = <<>>
    /\ slice = 0
    /\ selectedAt = <<>>
    /\ entered = <<>>

\* one call insSortPriority(ReadyQueue)
SortStep ==
    /\ pc = "sort"
    /\ ReadyQueue' = insSortPriority(ReadyQueue)
    /\ pc' = "sorted"
    /\ UNCHANGED <<cAlgorithm, iQuantum, JobQueue, ProcessQueue, currentProcess,
                   CLOCK, i, imported, credited, lastTick, slice, selectedAt,
                   entered>>

SortNext == SortStep

SortSpec == SortInit /\ [][SortNext]_vars

\* the reference stable sort: the records of each priority in their order in
\* s, the priorities from lo to hi
RECURSIVE StableSort(_, _, _)
StableSort(s, lo, hi) ==
    IF lo > hi
        THEN <<>>
        ELSE SelectSeq(s, LAMBDA r : r.priority = lo) \o StableSort(s, lo + 1, hi)

\* C15: insSortPriority leaves the queue holding the same records, whole and
\* unchanged, in non-decreasing priority with equal priorities in their order
\* before the call: the result is the reference stable sort of the queue
C15_StableSort ==
    pc = "sorted" =>
        LET t == ReadyQueue.items
        IN  /\ ReadyQueue.count = Len(imported)
            /\ Len(t) = Len(imported)
            /\ \A k \in 1..Len(imported) :
                  \E j \in 1..Len(t) : t[j] = imported[k]
            /\ \A k \in 1..(Len(t) - 1) :
                  /\ t[k].priority <= t[k + 1].priority
                  /\ t[k].priority = t[k + 1].priority => t[k].pid < t[k + 1].pid
            /\ t = StableSort(imported, 1, 3)

\* a queue was sorted that was out of order and had records of equal priority
\* on both sides of a record that had to move
C15_Witness ==
    /\ pc = "sorted"
    /\ ReadyQueue.items # imported
    /\ \E a, b, c \in 1..Len(imported) :
          /\ a < b /\ b < c
          /\ imported[a].priority = imported[b].priority
          /\ imported[c].priority < imported[a].priority

\* ------------------------------------------------------------------------
\* arrivalChecker on its own: one call on every ready queue and pending pool
\* of up to MaxPool nodes, at every clock value up to MaxPool
\* ------------------------------------------------------------------------
MaxPool == 3
PoolArrivals == 0..2

\* a node of the ready queue (pid k) or of the pending pool (pid 10 + k)
AdmitNode(pid, arrival) ==
    [pid |-> pid, arrival |-> arrival, burst |-> 2, finish |-> 0,
     waiting |-> 0, leftover |-> 1, priority |-> pid]

AdmitInit ==
    /\ pc = "admit"
    /\ CLOCK \in 0..MaxPool
    /\ \E r \in 0..MaxPool :
          ReadyQueue = [items |-> [k \in 1..r |-> AdmitNode(k, k - 1)], count |-> r]
    /\ \E n \in 0..MaxPool :
       \E f \in [1..n -> PoolArrivals] :
          JobQueue = [items |-> [k \in 1..n |-> AdmitNode(10 + k, f[k])], count |-> n]
    /\ currentProcess = AdmitNode(0, 0)
    /\ ProcessQueue = enqueue(init_list, AdmitNode(20, 0))
    /\ cAlgorithm = "RR"
    /\ iQuantum = 1
    /\ i = 0
    /\ imported = <<>>
    /\ credited = <<>>
    /\ lastTick = <<>>
    /\ slice = 0
    /\ selectedAt = <<>>
    /\ entered = <<>>

\* one call arrivalChecker(ReadyQueue, JobQueue, CLOCK)
AdmitStep ==
    /\ pc = "admit"
    /\ LET a == arrivalChecker(ReadyQueue, JobQueue, CLOCK)
       IN  /\ ReadyQueue' = a.ready
           /\ JobQueue' = a.job
    /\ pc' = "admitted"
    /\ UNCHANGED <<cAlgorithm, iQuantum, ProcessQueue, currentProcess, CLOCK, i,
                   imported, credited, lastTick, slice, selectedAt, entered>>

AdmitNext == AdmitStep

AdmitSpec == AdmitInit /\ [][AdmitNext]_vars

\* the pids arrivalChecker's loop dequeues from the pool, in order, in its n
\* remaining iterations
RECURSIVE arrivalExamined(_, _, _)
arrivalExamined(job, clock, n) ==
    IF n > 0
        THEN LET node == dequeueNode(job)
                 rest == dequeue(job)
             IN  <<node.pid>> \o
                 arrivalExamined(IF node.arrival = clock THEN rest
                                 ELSE enqueue(rest, node), clock, n - 1)
        ELSE <<>>

\* C16: a call of arrivalChecker at clock t examines each pending record once,
\* in pool order; it leaves the ready queue as it was followed by the pending
\* records with arrival = t in pool order, the pool as the other records in
\* their order, and the clock, the running process and the output unchanged
C16_Step ==
    pc = "admit" =>
        /\ ReadyQueue'.items = ReadyQueue.items \o Arriving(JobQueue, CLOCK)
        /\ JobQueue'.items = SelectSeq(JobQueue.items, LAMBDA p : p.arrival # CLOCK)
        /\ ReadyQueue'.count = Len(ReadyQueue'.items)
        /\ JobQueue'.count = Len(JobQueue'.items)
        /\ arrivalExamined(JobQueue, CLOCK, JobQueue.count) =
              [k \in 1..Len(JobQueue.items) |-> JobQueue.items[k].pid]
        /\ UNCHANGED <<CLOCK, currentProcess, ProcessQueue>>

C16_AdmitEffect == [][C16_Step]_vars

\* a call has moved the middle record of a pool of three behind a non-empty
\* ready queue and kept the other two
C16_Witness ==
    /\ pc = "admitted"
    /\ Len(ReadyQueue.items) >= 2
    /\ ReadyQueue.items[Len(ReadyQueue.items)].pid = 12
    /\ Len(JobQueue.items) = 2
    /\ JobQueue.items[1].pid = 11
    /\ JobQueue.items[2].pid = 13

\* a process has just been selected, or none was left to select, after the
\* admission that follows a completion or a preemption
SelectedAfterAdmit ==
    /\ ValidRun
    /\ pc \in {"npp_for", "npp_after", "rr_for", "rr_after", "done"}
    /\ slice = 0
    /\ CLOCK >= 1

\* C17: whenever the next process is selected after admission has run for the
\* current clock value, every process in the pending pool has arrival > CLOCK
C17_PoolIsFuture ==
    SelectedAfterAdmit =>
        \A k \in 1..Len(JobQueue.items) : JobQueue.items[k].arrival > CLOCK

\* every record the scheduler holds: running, ready, pending and output
AllRecords ==
    (IF currentProcess = NULL THEN <<>> ELSE <<currentProcess>>)
        \o ReadyQueue.items \o JobQueue.items \o Output

\* C18: with NPP, or RR with quantum >= 1, every record has 0 <= leftover <=
\* burst; a record is imported with leftover = burst, NPP never changes it, and
\* under RR it is burst less the ticks the process has spent running
C18_LeftoverRange ==
    ValidRun =>
        /\ \A k \in 1..Len(imported) : imported[k].leftover = imported[k].burst
        /\ \A k \in 1..Len(AllRecords) :
              LET r == AllRecords[k]
              IN  /\ 0 <= r.leftover
                  /\ r.leftover <= r.burst
                  /\ cAlgorithm = "NPP" => r.leftover = r.burst
                  /\ cAlgorithm = "RR" => r.leftover = r.burst - credited[r.pid]

\* RR holds a preempted process with part of its burst left while another
\* process has completed
C18_Witness ==
    /\ cAlgorithm = "RR"
    /\ iQuantum >= 1
    /\ \E k \in 1..Len(ReadyQueue.items) :
          /\ 0 < ReadyQueue.items[k].leftover
          /\ ReadyQueue.items[k].leftover < ReadyQueue.items[k].burst
    /\ Len(Output) > 0

\* C19: no process runs before it has arrived: the running process has
\* arrival <= CLOCK when it is selected and after, and every reported waiting
\* time is >= 0
C19_NoRunBeforeArrival ==
    ValidRun =>
        /\ currentProcess # NULL => currentProcess.arrival <= CLOCK
        /\ \A k \in 1..Len(Output) : Output[k].waiting >= 0

\* a step of npp() or rr()
Schedule ==
    \/ NppInit
    \/ NppTick
    \/ NppComplete
    \/ RrInit
    \/ RrTick
    \/ RrComplete
    \/ RrPreempt

\* a scheduler that has been called keeps executing: it takes its next step
\* whenever one is enabled
FairSpec == Spec /\ WF_vars(Schedule)

RECURSIVE SumLeftover(_)
SumLeftover(s) ==
    IF s = <<>> THEN 0 ELSE Head(s).leftover + SumLeftover(Tail(s))

\* the ticks the processes not yet completed still need: leftover under RR,
\* under NPP the burst, less the ticks of the running process's burst so far
Remaining ==
    SumLeftover((IF currentProcess = NULL THEN <<>> ELSE <<currentProcess>>)
                    \o ReadyQueue.items \o JobQueue.items)
        - (IF cAlgorithm = "NPP" THEN slice ELSE 0)

\* a measure every step of a scheduler decreases: two per remaining tick, two
\* before the initial selection, one between the end of a slice or burst and
\* the next selection
Variant ==
    2 * Remaining
        + (IF pc \in {"npp", "rr"} THEN 2 ELSE 0)
        + (IF pc \in {"npp_after", "rr_after"} THEN 1 ELSE 0)

C20_State ==
    ValidRun =>
        /\ Variant >= 0
        /\ pc \in {"npp_after", "rr_after"} => slice >= 1

C20_Step ==
    (ValidRun /\ pc # "main") =>
        /\ Variant' < Variant
        /\ pc \in {"npp_for", "rr_for"} => CLOCK' = CLOCK + 1
        /\ pc \notin {"npp_for", "rr_for"} => CLOCK' = CLOCK

\* C20: NPP, and RR with quantum >= 1, terminate on every input: each tick
\* advances the clock by one and takes one tick off the work that remains, a
\* selection is made only after at least one tick, and the run reaches the
\* state with no running process
C20_Terminates ==
    /\ []C20_State
    /\ [][C20_Step]_vars
    /\ (ValidRun /\ pc \in {"npp", "rr"}) ~> (pc = "done" /\ currentProcess = NULL)

\* an RR run has finished in which a process needed more than one slice
C20_Witness ==
    /\ pc = "done"
    /\ cAlgorithm = "RR"
    /\ iQuantum >= 1
    /\ Len(Output) >= 2
    /\ \E k \in 1..Len(Output) : Output[k].burst > iQuantum

=============================================================================
